---- MODULE Spec2Model ----
(***************************************************************************)
(* A model of the caching DNS forwarder: the record store of dns_cache.py  *)
(* (DNSCache) and the request path of dns_server.py (DNSServer).           *)
(*                                                                         *)
(* Strings are sequences of character codes, byte strings are sequences of *)
(* numbers 0..255, and wall-clock time is an integer number of ticks.      *)
(***************************************************************************)
EXTENDS Integers, Sequences, FiniteSets, TLC

\* ------------------------------------------------------------------ bounds

\* The clock runs from 0 to MaxTime.
MaxTime == 2

\* Time-to-live values handed to add_record / add_ns_record: 0..MaxTtl.
MaxTtl == 1

\* The clock's limit where a snapshot is aged by up to six ticks.
LongMaxTime == 6

\* ------------------------------------------------------------- input sets

\* "a"
DomainA == <<97>>
\* "1.1.1.1"
Ip1 == <<49, 46, 49, 46, 49, 46, 49>>
\* "2.2.2.2"
Ip2 == <<50, 46, 50, 46, 50, 46, 50>>
\* "n"
NameserverN == <<110>>

Domains == {DomainA}
Addresses == {Ip1}
BothAddresses == {Ip1, Ip2}
Nameservers == {NameserverN}
Ttls == 0..MaxTtl

\* The threads that call the locking operations of one DNSCache, and the
\* thread that calls its lookups.
Writers == {"w1", "w2"}
TableNames == {"domain_to_ip", "ip_to_domain", "ns_records"}

VARIABLES
    now,            \* time.time()
    domain_to_ip,   \* DNSCache.domain_to_ip: key -> bucket
    ip_to_domain,   \* DNSCache.ip_to_domain
    ns_records,     \* DNSCache.ns_records
    lock,           \* DNSCache.lock: its holder, or "free"
    wr,             \* per writer thread: position and locals
    rd,             \* the lookup thread: position and locals
    file,           \* the snapshot file on disk
    inserted,       \* history: the live inserts, each with its expiry
    hs,             \* per request-handling thread: position and locals
    learned,        \* history: the answers cached for the question asked
    srv             \* DNSServer: running, and the positions of its threads

vars == <<now, domain_to_ip, ip_to_domain, ns_records, lock, wr, rd, file, inserted,
          hs, learned, srv>>

\* ---------------------------------------------------------- DNSCache data

\* A bucket target_dict[key] is a Python dict value -> (expire_time, ttl): a
\* sequence of entries in insertion order, no value twice.
Entry(value, expire, ttl) == [value |-> value, expire |-> expire, ttl |-> ttl]

EmptyTable == [k \in {} |-> <<>>]

HasValue(bucket, value) == \E i \in DOMAIN bucket : bucket[i].value = value

\* target_dict[key][value] = (expire_time, ttl): overwrite in place, or append.
BucketPut(bucket, value, expire, ttl) ==
    IF HasValue(bucket, value)
    THEN [i \in DOMAIN bucket |->
            IF bucket[i].value = value THEN Entry(value, expire, ttl) ELSE bucket[i]]
    ELSE Append(bucket, Entry(value, expire, ttl))

_add_to_dict(target_dict, key, value, expire_time, ttl) ==
    LET d == IF key \in DOMAIN target_dict
             THEN target_dict
             ELSE target_dict @@ (key :> <<>>)
    IN [d EXCEPT ![key] = BucketPut(@, value, expire_time, ttl)]

Values(bucket) == [i \in DOMAIN bucket |-> bucket[i].value]

\* The lookup's filter: expire > current_time.
ValidGe(e, current_time) == e.expire >= current_time
Valid(e, current_time) == e.expire > current_time

ValidEntries(bucket, current_time) ==
    Values(SelectSeq(bucket, LAMBDA e : Valid(e, current_time)))

\* What a lookup returns: None, a non-empty list, or the exception raised.
None == [kind |-> "None", vals |-> <<>>]
List(vals) == [kind |-> "list", vals |-> vals]
Raised(exc) == [kind |-> exc, vals |-> <<>>]

\* _get_valid_entries run without interruption at time current_time.
_get_valid_entries(source_dict, key, current_time) ==
    IF key \notin DOMAIN source_dict
    THEN None
    ELSE LET valid_entries == ValidEntries(source_dict[key], current_time)
         IN IF valid_entries # <<>> THEN List(valid_entries) ELSE None

\* The sweep's filter: v[0] > current_time.
KeptGe(e, current_time) == e.expire >= current_time
KeptLater(e, current_time) == e.expire > current_time + 1
Kept(e, current_time) == e.expire > current_time

_cleanup_dict(target_dict, current_time) ==
    LET filtered == [k \in DOMAIN target_dict |->
                        SelectSeq(target_dict[k], LAMBDA e : Kept(e, current_time))]
    IN [k \in {x \in DOMAIN target_dict : filtered[x] # <<>>} |-> filtered[k]]

\* A serialization that writes the pair as [ttl, expire].
PrepareTtlFirst(source_dict) ==
    [k \in DOMAIN source_dict |->
        [i \in DOMAIN source_dict[k] |->
            [value |-> source_dict[k][i].value,
             pair |-> <<source_dict[k][i].ttl, source_dict[k][i].expire>>]]]

\* list(vv): the (expire, ttl) tuple becomes a two-element list.
_prepare_for_serialization(source_dict) ==
    [k \in DOMAIN source_dict |->
        [i \in DOMAIN source_dict[k] |->
            [value |-> source_dict[k][i].value,
             pair |-> <<source_dict[k][i].expire, source_dict[k][i].ttl>>]]]

RestoredExpireNoShift(expire, time_passed) == expire
RestoredExpire(expire, time_passed) == expire - time_passed

\* Every key of the file gets a bucket; an entry is kept when its shifted
\* expiry is still ahead of the time sampled by this call.
_restore_from_serialized(serialized, time_passed, current_time) ==
    [k \in DOMAIN serialized |->
        LET shifted == [i \in DOMAIN serialized[k] |->
                          Entry(serialized[k][i].value,
                                RestoredExpire(serialized[k][i].pair[1], time_passed),
                                serialized[k][i].pair[2])]
        IN SelectSeq(shifted, LAMBDA e : e.expire > current_time)]

\* The file: missing, unparsable, or the JSON document save_to_file wrote.
\* malformed: the parts of the document that do not have the shape save_to_file
\* gives them (a table that is no object of objects of pairs, a timestamp
\* that is no number).
NoFile == [kind |-> "missing", domain_to_ip |-> EmptyTable,
           ip_to_domain |-> EmptyTable, ns_records |-> EmptyTable, timestamp |-> 0,
           malformed |-> {}]
CorruptFile == [NoFile EXCEPT !.kind = "corrupt"]

TableOf(name) ==
    CASE name = "domain_to_ip" -> domain_to_ip
      [] name = "ip_to_domain" -> ip_to_domain
      [] name = "ns_records" -> ns_records

\* ------------------------------------------------------- threads' locals

\* raised: the exception the call ends with; before: history, the three tables
\* when load_from_file was called.
WriterIdle == [pc |-> "idle", key |-> <<>>, value |-> <<>>, ttl |-> 0, t |-> 0,
               data |-> NoFile, time_passed |-> 0, raised |-> "none", before |-> <<>>]

ReaderIdle == [pc |-> "idle", tbl |-> "domain_to_ip", key |-> <<>>, t |-> 0,
               bucket |-> <<>>, size |-> 0, live |-> FALSE, res |-> None,
               seen |-> {}, could |-> {}]

\* The threads _server_loop starts, one per datagram.
Handlers == {"h1"}

HandlerIdle == [pc |-> "idle", data |-> <<>>, query |-> <<>>, qtype |-> <<>>,
                cached |-> <<>>, response |-> <<>>, offset |-> 0, left |-> 0,
                step |-> 0, upstream |-> "none", events |-> <<>>, errors |-> {},
                nonEmpty |-> FALSE, expect |-> FALSE]

\* DNSServer.__init__: running is False, no thread is started. main is the
\* thread in start(), maint the one in _cleanup_worker; sleeps counts the
\* rounds of its sleep loop; final and joined and by are history: the steps
\* of the final _save_cache, whether the join saw the worker exit, and what
\* cleared the flag.
ServerInit == [running |-> FALSE, main |-> "init", maint |-> "unstarted", sleeps |-> 0,
               joined |-> FALSE, final |-> <<>>, by |-> "none"]

\* ---------------------------------------------------------------- history

Ins(tbl, key, value, expire) ==
    [tbl |-> tbl, key |-> key, value |-> value, expire |-> expire]

InsertedPut(h, tbl, key, value, expire) ==
    {g \in h : ~(g.tbl = tbl /\ g.key = key /\ g.value = value)}
        \cup {Ins(tbl, key, value, expire)}

\* ------------------------------------- the lookup thread and shared dicts

\* target_dict[key][value] = ... on the dict object the reader iterates over
\* changes that object under the reader; a new dict object does not.
RdAfterPut(tbl, key, wasPresent, bucket) ==
    IF rd.pc = "iter" /\ rd.live /\ rd.tbl = tbl /\ rd.key = key /\ wasPresent
    THEN [rd EXCEPT !.bucket = bucket]
    ELSE rd

\* The table rebinds every key to a new dict object (sweep, restore).
RdAfterRebind(tbl) ==
    IF rd.tbl = tbl THEN [rd EXCEPT !.live = FALSE] ELSE rd

\* History: the states of source_dict[key] a running lookup has lived through.
View(dict, key) ==
    IF key \in DOMAIN dict
    THEN [present |-> TRUE, bucket |-> dict[key]]
    ELSE [present |-> FALSE, bucket |-> <<>>]

\* The comprehension over the dict: RuntimeError when the dict has changed
\* size since the iterator was made.
IterResult(bucket, size, current_time) ==
    IF Len(bucket) # size
    THEN Raised("RuntimeError")
    ELSE LET valid_entries == ValidEntries(bucket, current_time)
         IN IF valid_entries # <<>> THEN List(valid_entries) ELSE None

\* What the lookup's code returns, uninterrupted, on one state of
\* source_dict[key] at time current_time.
ResultOn(view, current_time) ==
    IF ~view.present
    THEN None
    ELSE IterResult(view.bucket, Len(view.bucket), current_time)

\* Until the lookup has sampled its time the states are kept (seen); from then
\* on, what the lookup would return on each of them (could).
Observe(r, tbl, dict) ==
    IF r.tbl # tbl
    THEN r
    ELSE CASE r.pc = "sample" -> [r EXCEPT !.seen = @ \cup {View(dict, r.key)}]
           [] r.pc \in {"fetch", "iter"} ->
                [r EXCEPT !.could = @ \cup {ResultOn(View(dict, r.key), r.t)}]
           [] OTHER -> r

Init ==
    /\ now = 0
    /\ domain_to_ip = EmptyTable
    /\ ip_to_domain = EmptyTable
    /\ ns_records = EmptyTable
    /\ lock = "free"
    /\ wr = [w \in Writers |-> WriterIdle]
    /\ rd = ReaderIdle
    /\ file = NoFile
    /\ inserted = {}
    /\ hs = [h \in Handlers |-> HandlerIdle]
    /\ learned = {}
    /\ srv = ServerInit

\* The clock advances, up to limit.
Advance(limit) ==
    /\ now < limit
    /\ now' = now + 1
    /\ UNCHANGED <<srv, hs, learned, domain_to_ip, ip_to_domain, ns_records, lock, wr, rd, file, inserted>>

Tick == Advance(MaxTime)

\* --------------------------------------------------- DNSCache.add_record

\* expire_time = time.time() + ttl, before the lock is taken.
AddRecordCall(w, domain, ip, ttl) ==
    /\ wr[w].pc = "idle"
    /\ wr' = [wr EXCEPT ![w] = [WriterIdle EXCEPT !.pc = "add_fwd", !.key = domain,
                                   !.value = ip, !.ttl = ttl, !.t = now + ttl]]
    /\ UNCHANGED <<srv, hs, learned, now, domain_to_ip, ip_to_domain, ns_records, lock, rd, file, inserted>>

\* with self.lock: _add_to_dict(self.domain_to_ip, domain, ip, ...)
AddRecordForward(w) ==
    /\ wr[w].pc = "add_fwd"
    /\ lock = "free"
    /\ lock' = w
    /\ LET l == wr[w]
           d == _add_to_dict(domain_to_ip, l.key, l.value, l.t, l.ttl)
       IN /\ domain_to_ip' = d
          /\ rd' = Observe(RdAfterPut("domain_to_ip", l.key, l.key \in DOMAIN domain_to_ip,
                                      d[l.key]), "domain_to_ip", d)
          /\ inserted' = InsertedPut(inserted, "domain_to_ip", l.key, l.value, l.t)
    /\ wr' = [wr EXCEPT ![w].pc = "add_rev"]
    /\ UNCHANGED <<srv, hs, learned, now, ip_to_domain, ns_records, file>>

\* _add_to_dict(self.ip_to_domain, ip, domain, ...), then the lock is released.
AddRecordReverse(w) ==
    /\ wr[w].pc = "add_rev"
    /\ lock = w
    /\ lock' = "free"
    /\ LET l == wr[w]
           d == _add_to_dict(ip_to_domain, l.value, l.key, l.t, l.ttl)
       IN /\ ip_to_domain' = d
          /\ rd' = Observe(RdAfterPut("ip_to_domain", l.value, l.value \in DOMAIN ip_to_domain,
                                      d[l.value]), "ip_to_domain", d)
          /\ inserted' = InsertedPut(inserted, "ip_to_domain", l.value, l.key, l.t)
    /\ wr' = [wr EXCEPT ![w] = WriterIdle]
    /\ UNCHANGED <<srv, hs, learned, now, domain_to_ip, ns_records, file>>

\* ------------------------------------------------ DNSCache.add_ns_record

AddNsRecordCall(w, domain, nameserver, ttl) ==
    /\ wr[w].pc = "idle"
    /\ wr' = [wr EXCEPT ![w] = [WriterIdle EXCEPT !.pc = "add_ns", !.key = domain,
                                   !.value = nameserver, !.ttl = ttl, !.t = now + ttl]]
    /\ UNCHANGED <<srv, hs, learned, now, domain_to_ip, ip_to_domain, ns_records, lock, rd, file, inserted>>

AddNsRecordLocked(w) ==
    /\ wr[w].pc = "add_ns"
    /\ lock = "free"
    /\ LET l == wr[w]
           d == _add_to_dict(ns_records, l.key, l.value, l.t, l.ttl)
       IN /\ ns_records' = d
          /\ rd' = Observe(RdAfterPut("ns_records", l.key, l.key \in DOMAIN ns_records,
                                      d[l.key]), "ns_records", d)
          /\ inserted' = InsertedPut(inserted, "ns_records", l.key, l.value, l.t)
    /\ wr' = [wr EXCEPT ![w] = WriterIdle]
    /\ UNCHANGED <<srv, hs, learned, now, domain_to_ip, ip_to_domain, lock, file>>

\* ------------------------------------------------------ DNSCache.cleanup

\* current_time = time.time(), before the lock is taken.
CleanupCall(w) ==
    /\ wr[w].pc = "idle"
    /\ wr' = [wr EXCEPT ![w] = [WriterIdle EXCEPT !.pc = "cl_fwd", !.t = now]]
    /\ UNCHANGED <<srv, hs, learned, now, domain_to_ip, ip_to_domain, ns_records, lock, rd, file, inserted>>

CleanupForward(w) ==
    /\ wr[w].pc = "cl_fwd"
    /\ lock = "free"
    /\ lock' = w
    /\ domain_to_ip' = _cleanup_dict(domain_to_ip, wr[w].t)
    /\ rd' = Observe(RdAfterRebind("domain_to_ip"), "domain_to_ip", domain_to_ip')
    /\ wr' = [wr EXCEPT ![w].pc = "cl_rev"]
    /\ UNCHANGED <<srv, hs, learned, now, ip_to_domain, ns_records, file, inserted>>

CleanupReverse(w) ==
    /\ wr[w].pc = "cl_rev"
    /\ lock = w
    /\ ip_to_domain' = _cleanup_dict(ip_to_domain, wr[w].t)
    /\ rd' = Observe(RdAfterRebind("ip_to_domain"), "ip_to_domain", ip_to_domain')
    /\ wr' = [wr EXCEPT ![w].pc = "cl_ns"]
    /\ UNCHANGED <<srv, hs, learned, now, domain_to_ip, ns_records, lock, file, inserted>>

CleanupNs(w) ==
    /\ wr[w].pc = "cl_ns"
    /\ lock = w
    /\ lock' = "free"
    /\ ns_records' = _cleanup_dict(ns_records, wr[w].t)
    /\ rd' = Observe(RdAfterRebind("ns_records"), "ns_records", ns_records')
    /\ wr' = [wr EXCEPT ![w] = WriterIdle]
    /\ UNCHANGED <<srv, hs, learned, now, domain_to_ip, ip_to_domain, file, inserted>>

\* ------------------------------------------------- DNSCache.save_to_file

\* with self.lock: data = {...prepared tables..., 'timestamp': time.time()}
SaveLocked(w) ==
    /\ wr[w].pc = "idle"
    /\ lock = "free"
    /\ lock' = w
    /\ wr' = [wr EXCEPT ![w] = [WriterIdle EXCEPT !.pc = "save_write", !.data =
                [kind |-> "snapshot",
                 domain_to_ip |-> _prepare_for_serialization(domain_to_ip),
                 ip_to_domain |-> _prepare_for_serialization(ip_to_domain),
                 ns_records |-> _prepare_for_serialization(ns_records),
                 timestamp |-> now,
                 malformed |-> {}]]]
    /\ UNCHANGED <<srv, hs, learned, now, domain_to_ip, ip_to_domain, ns_records, rd, file, inserted>>

\* open(filename, 'w') truncates the file; json.dump then writes the document.
\* Either may raise IOError, which is printed; the lock is released.
WriteOutcomes == {"written", "open_failed", "dump_failed"}

FileAfterWrite(old, data, outcome) ==
    CASE outcome = "written" -> data
      [] outcome = "open_failed" -> old
      [] outcome = "dump_failed" -> CorruptFile

SaveWrite(w, outcome) ==
    /\ wr[w].pc = "save_write"
    /\ lock = w
    /\ lock' = "free"
    /\ file' = FileAfterWrite(file, wr[w].data, outcome)
    /\ wr' = [wr EXCEPT ![w] = WriterIdle]
    /\ UNCHANGED <<srv, hs, learned, now, domain_to_ip, ip_to_domain, ns_records, rd, inserted>>

\* ----------------------------------------------- DNSCache.load_from_file

\* open + json.load; load_time = time.time(); time_passed = load_time -
\* data.get('timestamp', load_time). FileNotFoundError passes, JSONDecodeError
\* and IOError are printed: the call ends with the tables untouched. A
\* timestamp that is no number makes the subtraction raise TypeError, which
\* no handler of load_from_file catches.
LoadRead(w) ==
    /\ wr[w].pc = "idle"
    /\ wr' = [wr EXCEPT ![w] = [WriterIdle EXCEPT
                !.pc = IF file.kind = "snapshot" /\ "timestamp" \notin file.malformed
                       THEN "load_fwd" ELSE "load_end",
                !.data = file,
                !.t = now,
                !.time_passed = now - file.timestamp,
                !.raised = IF file.kind = "snapshot" /\ "timestamp" \in file.malformed
                           THEN "TypeError" ELSE "none",
                !.before = <<domain_to_ip, ip_to_domain, ns_records>>]]
    /\ UNCHANGED <<srv, hs, learned, now, domain_to_ip, ip_to_domain, ns_records, lock, rd, file, inserted>>

Forget(h, tbl) == {g \in h : g.tbl # tbl}

\* _restore_from_serialized on a table without the expected shape raises
\* (AttributeError, TypeError or ValueError): the with block is left, the
\* lock released, and the exception leaves load_from_file uncaught.
LoadRaised(l) == [l EXCEPT !.pc = "load_end", !.raised = "ValueError"]

\* with self.lock: self.domain_to_ip = self._restore_from_serialized(...)
LoadForward(w) ==
    /\ wr[w].pc = "load_fwd"
    /\ lock = "free"
    /\ IF "domain_to_ip" \in wr[w].data.malformed
       THEN /\ wr' = [wr EXCEPT ![w] = LoadRaised(@)]
            /\ UNCHANGED <<domain_to_ip, rd, inserted, lock>>
       ELSE /\ lock' = w
            /\ domain_to_ip' = _restore_from_serialized(wr[w].data.domain_to_ip,
                                                        wr[w].time_passed, now)
            /\ rd' = Observe(RdAfterRebind("domain_to_ip"), "domain_to_ip", domain_to_ip')
            /\ inserted' = Forget(inserted, "domain_to_ip")
            /\ wr' = [wr EXCEPT ![w].pc = "load_rev"]
    /\ UNCHANGED <<srv, hs, learned, now, ip_to_domain, ns_records, file>>

LoadReverse(w) ==
    /\ wr[w].pc = "load_rev"
    /\ lock = w
    /\ IF "ip_to_domain" \in wr[w].data.malformed
       THEN /\ wr' = [wr EXCEPT ![w] = LoadRaised(@)]
            /\ lock' = "free"
            /\ UNCHANGED <<ip_to_domain, rd, inserted>>
       ELSE /\ ip_to_domain' = _restore_from_serialized(wr[w].data.ip_to_domain,
                                                        wr[w].time_passed, now)
            /\ rd' = Observe(RdAfterRebind("ip_to_domain"), "ip_to_domain", ip_to_domain')
            /\ inserted' = Forget(inserted, "ip_to_domain")
            /\ wr' = [wr EXCEPT ![w].pc = "load_ns"]
            /\ UNCHANGED lock
    /\ UNCHANGED <<srv, hs, learned, now, domain_to_ip, ns_records, file>>

LoadNs(w) ==
    /\ wr[w].pc = "load_ns"
    /\ lock = w
    /\ lock' = "free"
    /\ IF "ns_records" \in wr[w].data.malformed
       THEN /\ wr' = [wr EXCEPT ![w] = LoadRaised(@)]
            /\ UNCHANGED <<ns_records, rd, inserted>>
       ELSE /\ ns_records' = _restore_from_serialized(wr[w].data.ns_records,
                                                      wr[w].time_passed, now)
            /\ rd' = Observe(RdAfterRebind("ns_records"), "ns_records", ns_records')
            /\ inserted' = Forget(inserted, "ns_records")
            /\ wr' = [wr EXCEPT ![w].pc = "load_end"]
    /\ UNCHANGED <<srv, hs, learned, now, domain_to_ip, ip_to_domain, file>>

LoadReturn(w) ==
    /\ wr[w].pc = "load_end"
    /\ wr' = [wr EXCEPT ![w] = WriterIdle]
    /\ UNCHANGED <<srv, hs, learned, now, domain_to_ip, ip_to_domain, ns_records, lock, rd, file, inserted>>

\* ------------------------- DNSCache.get_ip / get_domain / get_nameservers

\* if key not in source_dict: return None
Lookup(tbl, key) ==
    /\ rd.pc = "idle"
    /\ rd' = IF key \notin DOMAIN TableOf(tbl)
             THEN [ReaderIdle EXCEPT !.pc = "done", !.tbl = tbl, !.key = key, !.t = now,
                                     !.res = None, !.could = {None}]
             ELSE [ReaderIdle EXCEPT !.pc = "sample", !.tbl = tbl, !.key = key,
                      !.seen = {View(TableOf(tbl), key)}]
    /\ UNCHANGED <<srv, hs, learned, now, domain_to_ip, ip_to_domain, ns_records, lock, wr, file, inserted>>

get_ip(domain) == Lookup("domain_to_ip", domain)
get_domain(ip) == Lookup("ip_to_domain", ip)
get_nameservers(domain) == Lookup("ns_records", domain)

\* current_time = time.time()
LookupSample ==
    /\ rd.pc = "sample"
    /\ rd' = [rd EXCEPT !.pc = "fetch", !.t = now, !.seen = {},
                         !.could = {ResultOn(v, now) : v \in rd.seen}]
    /\ UNCHANGED <<srv, hs, learned, now, domain_to_ip, ip_to_domain, ns_records, lock, wr, file, inserted>>

\* source_dict[key].items(): KeyError when the key has gone since the test.
LookupFetch ==
    /\ rd.pc = "fetch"
    /\ rd' = IF rd.key \notin DOMAIN TableOf(rd.tbl)
             THEN [rd EXCEPT !.pc = "done", !.res = Raised("KeyError")]
             ELSE [rd EXCEPT !.pc = "iter", !.bucket = TableOf(rd.tbl)[rd.key],
                             !.size = Len(TableOf(rd.tbl)[rd.key]), !.live = TRUE]
    /\ UNCHANGED <<srv, hs, learned, now, domain_to_ip, ip_to_domain, ns_records, lock, wr, file, inserted>>

LookupIter ==
    /\ rd.pc = "iter"
    /\ rd' = [rd EXCEPT !.pc = "done", !.res = IterResult(rd.bucket, rd.size, rd.t)]
    /\ UNCHANGED <<srv, hs, learned, now, domain_to_ip, ip_to_domain, ns_records, lock, wr, file, inserted>>

LookupReturn ==
    /\ rd.pc = "done"
    /\ rd' = ReaderIdle
    /\ UNCHANGED <<srv, hs, learned, now, domain_to_ip, ip_to_domain, ns_records, lock, wr, file, inserted>>

\* ------------------------------------------------------ the record store

\* add_record, called by thread w.
InsertOp(w, addresses) ==
    \/ \E d \in Domains, ip \in addresses, ttl \in Ttls : AddRecordCall(w, d, ip, ttl)
    \/ AddRecordForward(w)
    \/ AddRecordReverse(w)

\* add_ns_record, called by thread w.
InsertNsOp(w) ==
    \/ \E d \in Domains, ns \in Nameservers, ttl \in Ttls : AddNsRecordCall(w, d, ns, ttl)
    \/ AddNsRecordLocked(w)

\* cleanup, called by thread w.
SweepOp(w) ==
    \/ CleanupCall(w)
    \/ CleanupForward(w)
    \/ CleanupReverse(w)
    \/ CleanupNs(w)

\* save_to_file and load_from_file, called by thread w.
PersistOp(w) ==
    \/ SaveLocked(w)
    \/ \E o \in WriteOutcomes : SaveWrite(w, o)
    \/ LoadRead(w)
    \/ LoadForward(w)
    \/ LoadReverse(w)
    \/ LoadNs(w)
    \/ LoadReturn(w)

\* One thread runs every operation of the store while the clock runs.
Next ==
    \/ Tick
    \/ InsertOp("w1", Addresses)
    \/ InsertNsOp("w1")
    \/ SweepOp("w1")
    \/ PersistOp("w1")

Spec == Init /\ [][Next]_vars

\* One thread inserts and sweeps, with two addresses per domain.
NextTtl ==
    \/ Tick
    \/ InsertOp("w1", BothAddresses)
    \/ InsertNsOp("w1")
    \/ SweepOp("w1")

SpecTtl == Init /\ [][NextTtl]_vars

\* Two threads insert and sweep under the lock, with two addresses per domain.
NextSweep ==
    \/ Tick
    \/ \E w \in Writers : InsertOp(w, BothAddresses)
    \/ InsertNsOp("w1")
    \/ \E w \in Writers : SweepOp(w)

SpecSweep == Init /\ [][NextSweep]_vars

\* A lookup, which takes no lock, runs beside one thread's operations.
LookupStep ==
    \/ \E d \in Domains : get_ip(d)
    \/ \E ip \in Addresses : get_domain(ip)
    \/ LookupSample
    \/ LookupFetch
    \/ LookupIter
    \/ LookupReturn

NextLookup ==
    \/ Tick
    \/ InsertOp("w1", Addresses)
    \/ SweepOp("w1")
    \/ PersistOp("w1")
    \/ LookupStep

SpecLookup == Init /\ [][NextLookup]_vars

\* --------------------------- DNSCache.save_to_file, one table at a time

\* with self.lock: the lock's holder while thread w is in the with block.
HeldByNobody(w) == "free"
HeldBy(w) == w

\* The lock is taken and domain_to_ip is prepared (line 103).
SnapshotForward(w) ==
    /\ wr[w].pc = "idle"
    /\ lock = "free"
    /\ lock' = HeldBy(w)
    /\ wr' = [wr EXCEPT ![w] = [WriterIdle EXCEPT !.pc = "snap_rev",
                !.data = [NoFile EXCEPT !.kind = "snapshot",
                            !.domain_to_ip = _prepare_for_serialization(domain_to_ip)],
                !.before = <<domain_to_ip, ip_to_domain, ns_records>>]]
    /\ UNCHANGED <<srv, hs, learned, now, domain_to_ip, ip_to_domain, ns_records, rd, file, inserted>>

\* ip_to_domain is prepared (line 104).
SnapshotReverse(w) ==
    /\ wr[w].pc = "snap_rev"
    /\ lock = HeldBy(w)
    /\ wr' = [wr EXCEPT ![w].pc = "snap_ns",
                        ![w].data.ip_to_domain = _prepare_for_serialization(ip_to_domain)]
    /\ UNCHANGED <<srv, hs, learned, now, domain_to_ip, ip_to_domain, ns_records, lock, rd, file, inserted>>

\* ns_records is prepared and the timestamp taken (lines 105-106).
SnapshotNs(w) ==
    /\ wr[w].pc = "snap_ns"
    /\ lock = HeldBy(w)
    /\ wr' = [wr EXCEPT ![w].pc = "snap_write",
                        ![w].data.ns_records = _prepare_for_serialization(ns_records),
                        ![w].data.timestamp = now]
    /\ UNCHANGED <<srv, hs, learned, now, domain_to_ip, ip_to_domain, ns_records, lock, rd, file, inserted>>

\* The file is opened and written (lines 109-113); the lock is released.
SnapshotWrite(w, outcome) ==
    /\ wr[w].pc = "snap_write"
    /\ lock = HeldBy(w)
    /\ lock' = "free"
    /\ file' = FileAfterWrite(file, wr[w].data, outcome)
    /\ wr' = [wr EXCEPT ![w] = WriterIdle]
    /\ UNCHANGED <<srv, hs, learned, now, domain_to_ip, ip_to_domain, ns_records, rd, inserted>>

\* save_to_file, called by thread w.
SnapshotOp(w) ==
    \/ SnapshotForward(w)
    \/ SnapshotReverse(w)
    \/ SnapshotNs(w)
    \/ \E o \in WriteOutcomes : SnapshotWrite(w, o)

\* One thread inserts and sweeps while another saves.
NextSnapshot ==
    \/ Tick
    \/ InsertOp("w1", Addresses)
    \/ InsertNsOp("w1")
    \/ SweepOp("w1")
    \/ SnapshotOp("w2")

SpecSnapshot == Init /\ [][NextSnapshot]_vars

\* The parts of a snapshot document that something other than save_to_file
\* may have written with another shape.
DocumentParts == {"domain_to_ip", "ip_to_domain", "ns_records", "timestamp"}

\* The file load_from_file is given is a JSON document, but one of its parts
\* does not have the shape save_to_file writes.
Damage(part) ==
    /\ file.kind = "snapshot"
    /\ file.malformed = {}
    /\ file' = [file EXCEPT !.malformed = {part}]
    /\ UNCHANGED <<srv, hs, learned, now, domain_to_ip, ip_to_domain, ns_records, lock, wr, rd, inserted>>

\* One thread inserts, saves and loads; the file may come back damaged.
NextRead ==
    \/ Tick
    \/ InsertOp("w1", Addresses)
    \/ PersistOp("w1")
    \/ \E part \in DocumentParts : Damage(part)

SpecRead == Init /\ [][NextRead]_vars

\* A record with a ttl of five is inserted, saved and loaded over a long clock.
TickLong == Advance(LongMaxTime)

AddRecordLong(w) == \E d \in Domains, ip \in Addresses : AddRecordCall(w, d, ip, 5)

NextElapsed ==
    \/ TickLong
    \/ AddRecordLong("w1")
    \/ AddRecordForward("w1")
    \/ AddRecordReverse("w1")
    \/ PersistOp("w1")

SpecElapsed == Init /\ [][NextElapsed]_vars

\* =========================================================== DNSServer
\* ------------------------------------------------------------ byte strings

Min(a, b) == IF a < b THEN a ELSE b

\* data[a:b]: a Python slice, cut short at the end of data (offsets from 0).
Slice(data, a, b) ==
    IF a >= Len(data) \/ a >= b THEN <<>> ELSE SubSeq(data, a + 1, Min(b, Len(data)))

\* struct.unpack('!H', two bytes), struct.unpack('!I', four bytes)
U16(b) == b[1] * 256 + b[2]
U32(b) == ((b[1] * 256 + b[2]) * 256 + b[3]) * 256 + b[4]

\* struct.pack('!H', n)
PackU16(n) == <<n \div 256, n % 256>>

RECURSIVE JoinDots(_)
\* '.'.join(parts)
JoinDots(parts) ==
    IF parts = <<>> THEN <<>>
    ELSE IF Len(parts) = 1 THEN parts[1]
    ELSE parts[1] \o <<46>> \o JoinDots(Tail(parts))

RECURSIVE SplitDots(_)
\* name.split('.'): always at least one part
SplitDots(name) ==
    IF \A i \in DOMAIN name : name[i] # 46
    THEN <<name>>
    ELSE LET i == CHOOSE j \in DOMAIN name :
                    name[j] = 46 /\ \A k \in 1..(j - 1) : name[k] # 46
         IN <<SubSeq(name, 1, i - 1)>> \o SplitDots(SubSeq(name, i + 1, Len(name)))

IsAscii(bytes) == \A i \in DOMAIN bytes : bytes[i] < 128

Failed == [ok |-> FALSE, name |-> <<>>, offset |-> 0]

\* A decoder that takes what it has read for the name wherever it stands.
ParseLabelsAnywhere(data, offset, name, depth) ==
    [ok |-> TRUE, name |-> JoinDots(name), offset |-> offset]

RECURSIVE ParseLabels(_, _, _, _)
\* The loop of _parse_name at offset, with the labels read so far; depth
\* counts the nested calls made for compression pointers. A chain of more
\* pointers than the message has bytes runs in a cycle, which in Python ends
\* in RecursionError. Every exception is re-raised to the caller.
ParseLabels(data, offset, name, depth) ==
    IF offset >= Len(data)
    THEN Failed
    ELSE LET length == data[offset + 1]
         IN IF length = 0
            THEN [ok |-> TRUE, name |-> JoinDots(name), offset |-> offset + 1]
            ELSE IF length >= 192
            THEN IF offset + 2 > Len(data) \/ depth >= Len(data)
                 THEN Failed
                 ELSE LET pointer == (length - 192) * 256 + data[offset + 2]
                          part == ParseLabels(data, pointer, <<>>, depth + 1)
                      IN IF part.ok
                         THEN [ok |-> TRUE, name |-> JoinDots(Append(name, part.name)),
                               offset |-> offset + 2]
                         ELSE Failed
            ELSE LET label == Slice(data, offset + 1, offset + 1 + length)
                 IN IF IsAscii(label)
                    THEN ParseLabels(data, offset + 1 + length, Append(name, label), depth)
                    ELSE Failed

_parse_name(data, offset) == ParseLabels(data, offset, <<>>, 0)

RECURSIVE Flatten(_)
Flatten(seqs) == IF seqs = <<>> THEN <<>> ELSE seqs[1] \o Flatten(Tail(seqs))

NoBytes == [ok |-> FALSE, bytes |-> <<>>]
Bytes(b) == [ok |-> TRUE, bytes |-> b]

\* struct.pack('!B', len(part)) raises above 255, encode('ascii') above 127.
_encode_name(name) ==
    LET parts == SplitDots(name)
    IN IF \A i \in DOMAIN parts : Len(parts[i]) <= 255 /\ IsAscii(parts[i])
       THEN Bytes(Flatten([i \in DOMAIN parts |-> <<Len(parts[i])>> \o parts[i]]) \o <<0>>)
       ELSE NoBytes

\* str(n) for a byte
Decimal(n) ==
    IF n < 10 THEN <<48 + n>>
    ELSE IF n < 100 THEN <<48 + (n \div 10), 48 + (n % 10)>>
    ELSE <<48 + (n \div 100), 48 + ((n \div 10) % 10), 48 + (n % 10)>>

\* socket.inet_ntoa: four bytes to a dotted quad; any other length raises.
inet_ntoa(rdata) ==
    IF Len(rdata) = 4
    THEN Bytes(JoinDots([i \in 1..4 |-> Decimal(rdata[i])]))
    ELSE NoBytes

IsNumeral(part) ==
    /\ Len(part) \in 1..3
    /\ \A i \in DOMAIN part : part[i] \in 48..57

RECURSIVE NumeralValue(_)
NumeralValue(part) ==
    IF part = <<>> THEN 0
    ELSE NumeralValue(SubSeq(part, 1, Len(part) - 1)) * 10 + (part[Len(part)] - 48)

\* socket.inet_aton on a dotted quad of decimal numbers; a string that is not
\* numeric (a domain name) raises.
inet_aton(answer) ==
    LET parts == SplitDots(answer)
    IN IF /\ Len(parts) = 4
          /\ \A i \in 1..4 : IsNumeral(parts[i]) /\ NumeralValue(parts[i]) <= 255
       THEN Bytes([i \in 1..4 |-> NumeralValue(parts[i])])
       ELSE NoBytes

QtypeA == <<0, 1>>
QtypePtr == <<0, 12>>

\* One answer record of a built response: a pointer to offset 12, the type,
\* class IN, a ttl of 60, the rdata length and the rdata.
AnswerRecord(qtype, answer) ==
    IF qtype = QtypeA
    THEN LET a == inet_aton(answer)
         IN IF a.ok
            THEN Bytes(<<192, 12, 0, 1, 0, 1, 0, 0, 0, 60, 0, 4>> \o a.bytes)
            ELSE NoBytes
    ELSE IF qtype = QtypePtr
    THEN LET encoded == _encode_name(answer)
         IN IF encoded.ok
            THEN Bytes(<<192, 12, 0, 12, 0, 1, 0, 0, 0, 60>>
                        \o PackU16(Len(encoded.bytes)) \o encoded.bytes)
            ELSE NoBytes
    ELSE Bytes(<<>>)

_build_answers_section(qtype, answers) ==
    LET records == [i \in DOMAIN answers |-> AnswerRecord(qtype, answers[i])]
    IN IF \A i \in DOMAIN records : records[i].ok
       THEN Bytes(Flatten([i \in DOMAIN records |-> records[i].bytes]))
       ELSE NoBytes

_build_response(tid, query, qtype, answers) ==
    LET header == tid \o <<129, 128, 0, 1>> \o PackU16(Len(answers)) \o <<0, 0, 0, 0>>
        name == _encode_name(query)
        answers_section == _build_answers_section(qtype, answers)
    IN IF name.ok /\ answers_section.ok
       THEN Bytes(header \o name.bytes \o qtype \o <<0, 1>> \o answers_section.bytes)
       ELSE NoBytes

\* ---------------------------------------------------- datagrams received

Header(tid, flags, qdcount, ancount) ==
    tid \o flags \o PackU16(qdcount) \o PackU16(ancount) \o <<0, 0, 0, 0>>

Question(name, qtype) == _encode_name(name).bytes \o qtype \o <<0, 1>>

\* A standard query for (name, qtype), recursion desired.
Query(name, qtype) == Header(<<0, 7>>, <<1, 0>>, 1, 0) \o Question(name, qtype)

\* An answer record named by a pointer to offset 12, class IN.
Record(rtype, ttl, rdata) ==
    <<192, 12>> \o PackU16(rtype) \o <<0, 1>> \o <<0, 0>> \o PackU16(ttl)
        \o PackU16(Len(rdata)) \o rdata

Reply(name, qtype, ancount, records) ==
    Header(<<0, 7>>, <<129, 128>>, 1, ancount) \o Question(name, qtype) \o records

\* "r", a name asked by pointer queries
NameR == <<114>>

\* a -> 1.1.1.1 for one tick
ReplyA == Reply(DomainA, QtypeA, 1, Record(1, 1, <<1, 1, 1, 1>>))
\* r -> PTR a for one tick
ReplyPtr == Reply(NameR, QtypePtr, 1, Record(12, 1, _encode_name(DomainA).bytes))
\* two answers announced, the second one missing
ReplyCut == Reply(DomainA, QtypeA, 2, Record(1, 1, <<1, 1, 1, 1>>))

Datagrams ==
    { Query(DomainA, QtypeA),
      Query(NameR, QtypePtr),
      Query(NameR, QtypeA),
      <<0, 7, 1, 0, 0, 1, 0, 0>>,
      ReplyA,
      Header(<<0, 7>>, <<1, 0>>, 1, 0) \o <<5, 97>> }

\* What recvfrom on the forwarding socket returns, when it returns.
Replies == {ReplyA, ReplyPtr, ReplyCut, <<>>}

ForwardOutcomes == {"reply", "timeout", "error"}
SendOutcomes == {"sent", "error"}

\* ------------------------------------------------------------ the handler

Event(kind, bytes) == [kind |-> kind, bytes |-> bytes]

Count(events, kind) == Cardinality({i \in DOMAIN events : events[i].kind = kind})

\* lines 164-165: the upstream reply is cached, then sent to the client.
ResponseStepsSendFirst == <<"relay", "cache">>
ResponseSteps == <<"cache", "relay">>

\* Where a handler that got no reply from upstream goes.
AfterNoReplyRetry == "forward"
AfterNoReply == "dropped"

\* The handler returns: it has replied, or the datagram is dropped.
Returned(l) ==
    [l EXCEPT !.pc = IF Count(l.events, "reply") > 0 THEN "replied" ELSE "dropped"]

\* The step after step l.step of ResponseSteps.
StepDone(l) ==
    IF l.step < Len(ResponseSteps)
    THEN [l EXCEPT !.step = l.step + 1, !.pc = ResponseSteps[l.step + 1]]
    ELSE Returned(l)

store == <<ns_records, lock, wr, rd, file, inserted, srv>>

\* _server_loop: recvfrom, then a thread is started on the datagram.
Receive(h, data) ==
    /\ hs[h].pc = "idle"
    /\ hs' = [hs EXCEPT ![h] = [HandlerIdle EXCEPT !.pc = "start", !.data = data]]
    /\ UNCHANGED <<now, domain_to_ip, ip_to_domain, learned, store>>

\* A handler that does not look at the query-response bit.
ValidatedAnyFlags(l) ==
    IF Len(l.data) < 12
    THEN [l EXCEPT !.pc = "dropped", !.errors = @ \cup {"truncated"}]
    ELSE LET q == _parse_name(l.data, 12)
         IN IF q.ok
            THEN [l EXCEPT !.pc = "classify", !.query = q.name,
                           !.qtype = Slice(l.data, q.offset, q.offset + 2)]
            ELSE [l EXCEPT !.pc = "dropped", !.errors = @ \cup {"parse"}]

\* A handler that goes on with an empty question when the name does not parse.
ValidatedLenient(l) ==
    IF Len(l.data) < 12
    THEN [l EXCEPT !.pc = "dropped", !.errors = @ \cup {"truncated"}]
    ELSE IF l.data[3] >= 128
    THEN [l EXCEPT !.pc = "dropped"]
    ELSE LET q == _parse_name(l.data, 12)
         IN IF q.ok
            THEN [l EXCEPT !.pc = "classify", !.query = q.name,
                           !.qtype = Slice(l.data, q.offset, q.offset + 2)]
            ELSE [l EXCEPT !.pc = "classify", !.errors = @ \cup {"parse"}]

\* _handle_request up to the question: a short packet, a response and a
\* question that does not parse are dropped.
Validated(l) ==
    IF Len(l.data) < 12
    THEN [l EXCEPT !.pc = "dropped", !.errors = @ \cup {"truncated"}]
    ELSE IF l.data[3] >= 128
    THEN [l EXCEPT !.pc = "dropped"]
    ELSE LET q == _parse_name(l.data, 12)
         IN IF q.ok
            THEN [l EXCEPT !.pc = "classify", !.query = q.name,
                           !.qtype = Slice(l.data, q.offset, q.offset + 2)]
            ELSE [l EXCEPT !.pc = "dropped", !.errors = @ \cup {"parse"}]

Validate(h) ==
    /\ hs[h].pc = "start"
    /\ hs' = [hs EXCEPT ![h] = Validated(hs[h])]
    /\ UNCHANGED <<now, domain_to_ip, ip_to_domain, learned, store>>

\* The table _get_cached_response looks the question up in.
LookupTable(qtype) ==
    IF qtype = QtypeA THEN domain_to_ip
    ELSE IF qtype = QtypePtr THEN ip_to_domain
    ELSE EmptyTable

\* _get_cached_response: the built response, or None (ok is FALSE) when
\* nothing is cached or building the response raised.
_get_cached_response(tid, query, qtype) ==
    LET found == _get_valid_entries(LookupTable(qtype), query, now)
    IN IF found.kind = "list"
       THEN _build_response(tid, query, qtype, found.vals)
       ELSE NoBytes

\* History: an answer cached for this very question is still unexpired.
Expected(query, qtype) ==
    \E a \in learned :
        /\ a.qtype = qtype /\ a.name = query
        /\ \E i \in DOMAIN View(domain_to_ip, query).bucket :
              /\ domain_to_ip[query][i].value = a.value
              /\ domain_to_ip[query][i].expire > now

Classify(h) ==
    /\ hs[h].pc = "classify"
    /\ LET l == hs[h]
           found == _get_valid_entries(LookupTable(l.qtype), l.query, now)
           cached == _get_cached_response(SubSeq(l.data, 1, 2), l.query, l.qtype)
           seen == [l EXCEPT !.nonEmpty = found.kind = "list",
                             !.expect = Expected(l.query, l.qtype)]
       IN hs' = [hs EXCEPT ![h] =
                    IF cached.ok /\ cached.bytes # <<>>
                    THEN [seen EXCEPT !.pc = "hit", !.cached = cached.bytes]
                    ELSE [seen EXCEPT !.pc = "forward",
                            !.errors = IF found.kind = "list" THEN @ \cup {"build"} ELSE @]]
    /\ UNCHANGED <<now, domain_to_ip, ip_to_domain, learned, store>>

\* sock.sendto(cached, addr)
SendCached(h, outcome) ==
    /\ hs[h].pc = "hit"
    /\ hs' = [hs EXCEPT ![h] =
                IF outcome = "sent"
                THEN Returned([@ EXCEPT !.events = Append(@, Event("reply", hs[h].cached))])
                ELSE Returned([@ EXCEPT !.errors = @ \cup {"send"}])]
    /\ UNCHANGED <<now, domain_to_ip, ip_to_domain, learned, store>>

\* _forward_query: the query goes to the forwarder; a reply, a timeout or a
\* socket error comes back. An empty reply counts as none.
Forward(h, outcome, reply) ==
    /\ hs[h].pc = "forward"
    /\ LET l == [hs[h] EXCEPT !.events = Append(@, Event("forward", hs[h].data)),
                              !.upstream = outcome]
       IN hs' = [hs EXCEPT ![h] =
                    IF outcome # "reply"
                    THEN [l EXCEPT !.pc = AfterNoReply, !.errors = @ \cup {"forward"}]
                    ELSE IF reply = <<>>
                    THEN [l EXCEPT !.pc = AfterNoReply, !.upstream = "empty"]
                    ELSE [l EXCEPT !.response = reply, !.step = 1, !.pc = ResponseSteps[1]]]
    /\ UNCHANGED <<now, domain_to_ip, ip_to_domain, learned, store>>

NoRecord == [ok |-> FALSE, rtype |-> 0, name |-> <<>>, value |-> <<>>, ttl |-> 0,
             offset |-> 0]

\* One round of the loop of _cache_response: the record at offset, and for
\* an address or pointer record the value add_record is called with.
ParseRecord(response, offset) ==
    LET n == _parse_name(response, offset)
        fixed == Slice(response, n.offset, n.offset + 10)
    IN IF ~n.ok \/ Len(fixed) # 10
       THEN NoRecord
       ELSE LET rtype == U16(SubSeq(fixed, 1, 2))
                ttl == U32(SubSeq(fixed, 5, 8))
                rdlength == U16(SubSeq(fixed, 9, 10))
                rdata == Slice(response, n.offset + 10, n.offset + 10 + rdlength)
                next == n.offset + 10 + rdlength
                parsed == [ok |-> TRUE, rtype |-> rtype, name |-> n.name, value |-> <<>>,
                           ttl |-> ttl, offset |-> next]
            IN IF rtype = 1
               THEN LET ip == inet_ntoa(rdata)
                    IN IF ip.ok THEN [parsed EXCEPT !.value = ip.bytes] ELSE NoRecord
               ELSE IF rtype = 12
               THEN LET domain == _parse_name(response, next - rdlength)
                    IN IF domain.ok THEN [parsed EXCEPT !.value = domain.name] ELSE NoRecord
               ELSE parsed

\* The exception handler of _cache_response: a warning, and the call returns.
CacheFailed(l) == StepDone([l EXCEPT !.errors = @ \cup {"cache"}])

\* _cache_response up to its loop: the question is skipped, ancount is read.
CacheBegin(h) ==
    /\ hs[h].pc = "cache"
    /\ LET l == hs[h]
           q == _parse_name(l.response, 12)
           count == Slice(l.response, 6, 8)
       IN hs' = [hs EXCEPT ![h] =
                    IF ~q.ok \/ Len(count) # 2
                    THEN CacheFailed(l)
                    ELSE IF U16(count) = 0
                    THEN StepDone(l)
                    ELSE [l EXCEPT !.pc = "cache_rr", !.offset = q.offset + 4,
                                   !.left = U16(count)]]
    /\ UNCHANGED <<now, domain_to_ip, ip_to_domain, learned, store>>

\* One record of the loop: add_record for an address or a pointer record.
CacheRecord(h) ==
    /\ hs[h].pc = "cache_rr"
    /\ lock = "free"
    /\ LET l == hs[h]
           r == ParseRecord(l.response, l.offset)
           more == [l EXCEPT !.offset = r.offset, !.left = l.left - 1]
           after == IF more.left = 0 THEN StepDone(more) ELSE more
       IN IF ~r.ok
          THEN /\ hs' = [hs EXCEPT ![h] = CacheFailed(l)]
               /\ UNCHANGED <<domain_to_ip, ip_to_domain, learned>>
          ELSE IF r.rtype \in {1, 12}
          THEN /\ domain_to_ip' = _add_to_dict(domain_to_ip, r.name, r.value, now + r.ttl, r.ttl)
               /\ ip_to_domain' = _add_to_dict(ip_to_domain, r.value, r.name, now + r.ttl, r.ttl)
               /\ hs' = [hs EXCEPT ![h] =
                            [after EXCEPT !.events = Append(@, Event("insert", r.name))]]
               /\ learned' = IF r.ttl > 0 /\ r.name = l.query /\ PackU16(r.rtype) = l.qtype
                             THEN learned \cup {[qtype |-> l.qtype, name |-> r.name,
                                                 value |-> r.value]}
                             ELSE learned
          ELSE /\ hs' = [hs EXCEPT ![h] = after]
               /\ UNCHANGED <<domain_to_ip, ip_to_domain, learned>>
    /\ UNCHANGED <<now, store>>

\* sock.sendto(response, addr): a failure is printed, and the handler returns.
Relay(h, outcome) ==
    /\ hs[h].pc = "relay"
    /\ hs' = [hs EXCEPT ![h] =
                IF outcome = "sent"
                THEN StepDone([@ EXCEPT !.events = Append(@, Event("reply", hs[h].response))])
                ELSE Returned([@ EXCEPT !.errors = @ \cup {"send"}])]
    /\ UNCHANGED <<now, domain_to_ip, ip_to_domain, learned, store>>

\* The handling thread ends.
HandlerExit(h) ==
    /\ hs[h].pc \in {"replied", "dropped"}
    /\ hs' = [hs EXCEPT ![h] = HandlerIdle]
    /\ UNCHANGED <<now, domain_to_ip, ip_to_domain, learned, store>>

\* _cleanup_worker: self.cache.cleanup(), here in one step under the lock.
Sweep ==
    /\ lock = "free"
    /\ domain_to_ip' = _cleanup_dict(domain_to_ip, now)
    /\ ip_to_domain' = _cleanup_dict(ip_to_domain, now)
    /\ ns_records' = _cleanup_dict(ns_records, now)
    /\ UNCHANGED <<now, hs, learned, lock, wr, rd, file, inserted, srv>>

NextServer ==
    \/ Tick
    \/ Sweep
    \/ \E h \in Handlers, data \in Datagrams : Receive(h, data)
    \/ \E h \in Handlers : Validate(h)
    \/ \E h \in Handlers : Classify(h)
    \/ \E h \in Handlers, o \in SendOutcomes : SendCached(h, o)
    \/ \E h \in Handlers, o \in ForwardOutcomes, r \in Replies : Forward(h, o, r)
    \/ \E h \in Handlers : CacheBegin(h)
    \/ \E h \in Handlers : CacheRecord(h)
    \/ \E h \in Handlers, o \in SendOutcomes : Relay(h, o)
    \/ \E h \in Handlers : HandlerExit(h)

SpecServer == Init /\ [][NextServer]_vars

\* ---------------------------------------------- datagrams for the codec

\* The longest question section, in bytes, of the datagrams below.
MaxBodyLen == 4

\* Bytes of a question section: the terminator, a label length, a letter, the
\* pointer tag, and the offsets 12 and 14 as pointer targets.
CodecBytes == {0, 1, 97, 192, 12, 14}

\* Every query header followed by at most MaxBodyLen of these bytes.
CodecDatagrams ==
    {Header(<<0, 7>>, <<1, 0>>, 1, 0) \o body :
        body \in UNION {[1..n -> CodecBytes] : n \in 0..MaxBodyLen}}

\* The request path on these datagrams, no reply coming from upstream.
NextCodec ==
    \/ \E h \in Handlers, data \in CodecDatagrams : Receive(h, data)
    \/ \E h \in Handlers : Validate(h)
    \/ \E h \in Handlers : Classify(h)
    \/ \E h \in Handlers, r \in Replies : Forward(h, "timeout", r)
    \/ \E h \in Handlers : HandlerExit(h)

SpecCodec == Init /\ [][NextCodec]_vars

\* ------------------------------------------------- start, stop, workers

\* The rounds of the worker's sleep loop, range(self.cleanup_interval).
CleanupRounds == 2

\* while self.running: the loops of _server_loop and _cleanup_worker.
KeepsPollingRegardless(running) == TRUE
KeepsPolling(running) == running

caches == <<now, domain_to_ip, ip_to_domain, ns_records, lock, wr, rd, file, inserted,
            hs, learned>>

\* start(): running is set, the cache file (none yet) is loaded, the worker
\* threads are started.
Start ==
    /\ srv.main = "init"
    /\ srv' = [srv EXCEPT !.running = TRUE, !.main = "bind", !.maint = "check"]
    /\ UNCHANGED caches

BindOutcomes == {"bound", "failed"}

\* socket, bind, settimeout: a failure leaves start() through its finally.
Bind(outcome) ==
    /\ srv.main = "bind"
    /\ srv' = [srv EXCEPT !.main = IF outcome = "bound" THEN "loop" ELSE "stop"]
    /\ UNCHANGED caches

\* _server_loop: while self.running
ListenerCheck ==
    /\ srv.main = "loop"
    /\ srv' = [srv EXCEPT !.main = IF KeepsPolling(srv.running) THEN "recv" ELSE "stop"]
    /\ UNCHANGED caches

RecvOutcomes == {"datagram", "timeout", "error"}

\* recvfrom under the socket timeout: a datagram (a handler thread is
\* started), socket.timeout, or an error that is printed; the loop goes on.
ListenerRecv(outcome) ==
    /\ srv.main = "recv"
    /\ srv' = [srv EXCEPT !.main = "loop"]
    /\ UNCHANGED caches

\* _stop_command, typed at the console while its loop runs.
StopCommand ==
    /\ srv.running
    /\ srv.main \in {"bind", "loop", "recv"}
    /\ srv' = [srv EXCEPT !.running = FALSE, !.by = "command"]
    /\ UNCHANGED caches

\* stop(): with self.lock: self.running = False
StopFlag ==
    /\ srv.main = "stop"
    /\ srv' = [srv EXCEPT !.running = FALSE, !.main = "join",
                          !.by = IF srv.running THEN "failure" ELSE @]
    /\ UNCHANGED caches

\* cleanup_thread.join(timeout=2.0) returns, the worker gone or not.
Join ==
    /\ srv.main = "join"
    /\ srv' = [srv EXCEPT !.main = "save_cleanup", !.joined = srv.maint = "exited"]
    /\ UNCHANGED caches

\* _save_cache: self.cache.cleanup(), here in one step under the lock.
FinalSweep ==
    /\ srv.main = "save_cleanup"
    /\ lock = "free"
    /\ domain_to_ip' = _cleanup_dict(domain_to_ip, now)
    /\ ip_to_domain' = _cleanup_dict(ip_to_domain, now)
    /\ ns_records' = _cleanup_dict(ns_records, now)
    /\ srv' = [srv EXCEPT !.main = "save_file", !.final = Append(@, "sweep")]
    /\ UNCHANGED <<now, lock, wr, rd, file, inserted, hs, learned>>

\* _save_cache: self.cache.save_to_file(self.cache_file), in one step; then
\* stop() returns.
FinalSave(outcome) ==
    /\ srv.main = "save_file"
    /\ lock = "free"
    /\ file' = FileAfterWrite(file,
                  [kind |-> "snapshot",
                   domain_to_ip |-> _prepare_for_serialization(domain_to_ip),
                   ip_to_domain |-> _prepare_for_serialization(ip_to_domain),
                   ns_records |-> _prepare_for_serialization(ns_records),
                   timestamp |-> now,
                   malformed |-> {}], outcome)
    /\ srv' = [srv EXCEPT !.main = "stopped", !.final = Append(@, "save")]
    /\ UNCHANGED <<now, domain_to_ip, ip_to_domain, ns_records, lock, wr, rd, inserted,
                   hs, learned>>

\* _cleanup_worker: while self.running
WorkerCheck ==
    /\ srv.maint = "check"
    /\ srv' = [srv EXCEPT !.maint = IF KeepsPolling(srv.running) THEN "cleanup" ELSE "exited"]
    /\ UNCHANGED caches

\* _cleanup_worker: self.cache.cleanup(), in one step under the lock.
WorkerCleanup ==
    /\ srv.maint = "cleanup"
    /\ lock = "free"
    /\ domain_to_ip' = _cleanup_dict(domain_to_ip, now)
    /\ ip_to_domain' = _cleanup_dict(ip_to_domain, now)
    /\ ns_records' = _cleanup_dict(ns_records, now)
    /\ srv' = [srv EXCEPT !.maint = "sleep", !.sleeps = 0]
    /\ UNCHANGED <<now, lock, wr, rd, file, inserted, hs, learned>>

\* for _ in range(self.cleanup_interval): break when not running, else sleep.
WorkerSleep ==
    /\ srv.maint = "sleep"
    /\ srv' = IF srv.sleeps < CleanupRounds /\ srv.running
              THEN [srv EXCEPT !.sleeps = @ + 1]
              ELSE [srv EXCEPT !.maint = "check", !.sleeps = 0]
    /\ UNCHANGED caches

\* A request handler's add_record of an upstream answer, under the lock.
HandlerCaches(domain, ip, ttl) ==
    /\ srv.main # "init"
    /\ lock = "free"
    /\ domain_to_ip' = _add_to_dict(domain_to_ip, domain, ip, now + ttl, ttl)
    /\ ip_to_domain' = _add_to_dict(ip_to_domain, ip, domain, now + ttl, ttl)
    /\ UNCHANGED <<now, ns_records, lock, wr, rd, file, inserted, hs, learned, srv>>

\* The thread that runs start() and, from its finally, stop().
MainSteps ==
    \/ Start
    \/ \E o \in BindOutcomes : Bind(o)
    \/ ListenerCheck
    \/ \E o \in RecvOutcomes : ListenerRecv(o)
    \/ StopFlag
    \/ Join
    \/ FinalSweep
    \/ \E o \in WriteOutcomes : FinalSave(o)

\* The thread that runs _cleanup_worker.
WorkerSteps ==
    \/ WorkerCheck
    \/ WorkerCleanup
    \/ WorkerSleep

NextStop ==
    \/ Tick
    \/ MainSteps
    \/ WorkerSteps
    \/ StopCommand
    \/ \E d \in Domains, ip \in Addresses, ttl \in Ttls : HandlerCaches(d, ip, ttl)

\* Both threads are scheduled, and recvfrom, sleep and join return within
\* their timeouts: a step of a thread that stays possible is taken.
SpecStop == Init /\ [][NextStop]_vars /\ WF_vars(MainSteps) /\ WF_vars(WorkerSteps)

\* ================================================================ claims

Tables == [domain_to_ip |-> domain_to_ip, ip_to_domain |-> ip_to_domain,
           ns_records |-> ns_records]

InList(value, res) == \E i \in DOMAIN res.vals : res.vals[i] = value

Stored(dict, key, value) == key \in DOMAIN dict /\ HasValue(dict[key], value)

ExpireOf(dict, key, value) ==
    LET i == CHOOSE j \in DOMAIN dict[key] : dict[key][j].value = value
    IN dict[key][i].expire

\* C1 (TTL monotonicity): an entry inserted by add_record or add_ns_record at
\* time t0 with ttl t, and not inserted again since, is returned by a lookup
\* of its key at every time before t0 + t and omitted at every time from
\* t0 + t on, whether or not a sweep has run since the insert.
C1_TtlMonotonicity ==
    \A g \in inserted :
        InList(g.value, _get_valid_entries(TableOf(g.tbl), g.key, now))
            <=> now < g.expire

\* C1's case: a sweep has run (it removed the key's other, older entry), one
\* inserted entry is still live and returned, and the clock has moved on.
C1_Witness ==
    \E g \in inserted, h \in inserted :
        /\ g.tbl = "domain_to_ip" /\ h.tbl = "domain_to_ip" /\ g.key = h.key
        /\ now < g.expire
        /\ h.expire <= now
        /\ ~Stored(domain_to_ip, h.key, h.value)
        /\ InList(g.value, _get_valid_entries(domain_to_ip, g.key, now))

Paired(fwd, rev) ==
    \A k \in DOMAIN fwd : \A i \in DOMAIN fwd[k] :
        /\ Stored(rev, fwd[k][i].value, k)
        /\ ExpireOf(rev, fwd[k][i].value, k) = fwd[k][i].expire

\* C3 (bidirectional consistency): whenever no operation is inside the
\* store's critical section, (N -> V) is in the forward table if and only if
\* (V -> N) is in the reverse table, with the same expiry.
C3_Bidirectional ==
    lock = "free" => Paired(domain_to_ip, ip_to_domain) /\ Paired(ip_to_domain, domain_to_ip)

\* C4 (elapsed-time compensation): of a snapshot saved at T0 with an entry
\* expiring at T0 + 5, a load at T0 + 3 leaves the entry present, returned by
\* a lookup, with 2 ticks remaining, and a load at T0 + 6 leaves it absent.
\* Read when the load has just restored the forward table.
C4_ElapsedCompensation ==
    \A w \in Writers :
        wr[w].pc = "load_rev" =>
            \A k \in DOMAIN wr[w].data.domain_to_ip :
                \A i \in DOMAIN wr[w].data.domain_to_ip[k] :
                    LET e == wr[w].data.domain_to_ip[k][i]
                        T0 == wr[w].data.timestamp
                    IN e.pair[1] = T0 + 5 =>
                        /\ (wr[w].t = T0 + 3 /\ now = wr[w].t) =>
                              /\ InList(e.value, _get_valid_entries(domain_to_ip, k, now))
                              /\ ExpireOf(domain_to_ip, k, e.value) - now = 2
                        /\ (wr[w].t = T0 + 6) =>
                              ~InList(e.value, _get_valid_entries(domain_to_ip, k, now))

\* C5 (lookups are atomic and never fail): a lookup that runs beside
\* add_record, cleanup and load_from_file raises nothing and returns what it
\* would return on the table as it was at some moment of the lookup.
C5_LookupAtomic ==
    rd.pc = "done" =>
        /\ rd.res.kind \in {"None", "list"}
        /\ rd.res \in rd.could

\* C10 (no empty bucket): whenever no operation is inside the store's
\* critical section, every key present in a table maps to a non-empty bucket.
C10_NoEmptyBucket ==
    lock = "free" =>
        \A n \in TableNames : \A k \in DOMAIN Tables[n] : Tables[n][k] # <<>>

\* ------------------------------------------------------- request handling

Forwards(h) == Count(hs[h].events, "forward")
Replies_(h) == Count(hs[h].events, "reply")
Inserts(h) == Count(hs[h].events, "insert")

\* C2: once the reply to a missed A or PTR query for a name has been cached
\* with an answer of that type and name and a positive ttl, the same query,
\* arriving while the entry made for that answer is unexpired, is a cache hit
\* and is not forwarded upstream a second time.
C2_CacheReuse ==
    \A h \in Handlers :
        hs[h].expect => hs[h].pc # "forward" /\ Forwards(h) = 0

\* C6: when a missed query gets an upstream reply, every insert made from
\* the reply's answer records precedes the sending of the reply to the
\* client: nothing is sent while the reply is being cached, and no insert
\* follows the send.
C6_CacheThenReply ==
    \A h \in Handlers :
        /\ hs[h].pc \in {"cache", "cache_rr"} => Replies_(h) = 0
        /\ \A i, j \in DOMAIN hs[h].events :
              hs[h].events[i].kind = "insert" /\ hs[h].events[j].kind = "reply" => i < j

C6_Witness ==
    \E h \in Handlers :
        /\ hs[h].pc = "replied" /\ hs[h].upstream = "reply"
        /\ Forwards(h) = 1 /\ Inserts(h) = 1 /\ Replies_(h) = 1
        /\ hs[h].errors = {}

\* C7: a missed query is forwarded upstream exactly once, and when the
\* forward times out or fails the request is dropped: no second forward, no
\* reply to the client, no insert into the record store.
C7_OneForward ==
    \A h \in Handlers :
        /\ Forwards(h) <= 1
        /\ hs[h].pc \in {"cache", "cache_rr", "relay"} => Forwards(h) = 1
        /\ hs[h].upstream \in {"timeout", "error"} =>
              /\ hs[h].pc = "dropped"
              /\ Forwards(h) = 1 /\ Replies_(h) = 0 /\ Inserts(h) = 0

C7_Witness ==
    \E h \in Handlers :
        /\ hs[h].upstream = "timeout" /\ hs[h].pc = "dropped"
        /\ ~hs[h].nonEmpty /\ Forwards(h) = 1 /\ Replies_(h) = 0

\* C8: an A or PTR query whose lookup in the record store returns a
\* non-empty result is answered from the cache and ends replied (unless the
\* send itself fails), and is never forwarded upstream.
C8_HitNeverForwards ==
    \A h \in Handlers :
        hs[h].nonEmpty =>
            /\ hs[h].pc # "forward" /\ Forwards(h) = 0
            /\ hs[h].pc \in {"hit", "replied"} \/ "send" \in hs[h].errors

\* C9, as stated: whenever an error occurs while a datagram is handled, a
\* failure to parse the upstream reply's records during caching included,
\* no reply is sent to the client for that datagram.
C9_DroppedOnAnyError ==
    \A h \in Handlers : hs[h].errors # {} => Replies_(h) = 0

\* C9, amended: a truncated or unparsable query, a failed forward and a
\* failed send end the handling dropped with no reply; a failure while the
\* upstream reply is cached, or while a cached answer is built, is only
\* logged, and the upstream reply received is still relayed unless the send
\* fails; in every case the handler returns.
C9_Containment ==
    \A h \in Handlers :
        /\ hs[h].errors \cap {"truncated", "parse", "forward", "send"} # {} =>
              hs[h].pc = "dropped" /\ Replies_(h) = 0
        /\ /\ hs[h].pc \in {"replied", "dropped"}
           /\ hs[h].upstream = "reply"
           /\ "send" \notin hs[h].errors
           => hs[h].pc = "replied" /\ Replies_(h) = 1
        /\ hs[h].errors \subseteq {"truncated", "parse", "forward", "send", "cache", "build"}

C9_Witness ==
    \E h \in Handlers :
        /\ "cache" \in hs[h].errors /\ hs[h].pc = "replied"
        /\ Inserts(h) = 1 /\ Replies_(h) = 1

\* -------------------------------------------------------------- the sweep

\* No entry of the tables expires at or before t, and no bucket is empty.
Swept(tables, t) ==
    \A n \in DOMAIN tables : \A k \in DOMAIN tables[n] :
        /\ tables[n][k] # <<>>
        /\ \A i \in DOMAIN tables[n][k] : tables[n][k][i].expire > t

\* C11: in the step in which cleanup() releases the lock, with t the time the
\* sweep sampled, no table holds an entry with expire <= t and no key of a
\* table maps to an empty bucket.
C11_SweepComplete ==
    [][\A w \in Writers :
          wr[w].pc = "cl_ns" /\ wr'[w].pc = "idle" =>
              Swept(<<domain_to_ip', ip_to_domain', ns_records'>>, wr[w].t)]_vars

\* A sweep holds the lock, has removed an expired address entry, has kept a
\* live one, and is about to remove the last entry of a nameserver bucket.
C11_Witness ==
    \E w \in Writers :
        /\ wr[w].pc = "cl_ns" /\ lock = w
        /\ \E g \in inserted :
              /\ g.tbl = "domain_to_ip" /\ g.expire <= wr[w].t
              /\ ~Stored(domain_to_ip, g.key, g.value)
        /\ \E k \in DOMAIN ns_records : \E i \in DOMAIN ns_records[k] :
              ns_records[k][i].expire <= wr[w].t

\* ------------------------------------------------------------ persistence

\* load_from_file ended without restoring the three tables: the file could
\* not be read or decoded, or an exception left the call.
LoadFailed(l) ==
    l.pc = "load_end" /\ (l.data.kind = "corrupt" \/ l.raised # "none")

\* C12: when load_from_file fails (unreadable file, invalid JSON, a document
\* whose tables or entries do not have the expected shape), the three tables
\* are exactly what they were before the call.
C12_ReadErrorKeepsStore ==
    \A w \in Writers :
        LoadFailed(wr[w]) => <<domain_to_ip, ip_to_domain, ns_records>> = wr[w].before

\* C13: when save_to_file fails to open or to write the file, the IOError is
\* only printed and the file on disk has the content it had before the save.
C13_WriteErrorKeepsFile ==
    [][\A w \in Writers, outcome \in WriteOutcomes \ {"written"} :
          SaveWrite(w, outcome) => file' = file]_vars

\* --------------------------------------------------------------- shutdown

Stopping == srv.main # "init" /\ ~srv.running

\* C14: once the running flag is cleared, by the stop command or by stop()
\* after the listener failed, the listener loop and the cleanup worker
\* eventually exit and the final cleanup followed by the save is eventually
\* performed, whether or not the worker had exited when the join returned.
C14_Shutdown ==
    Stopping ~> /\ srv.main = "stopped"
                /\ srv.maint = "exited"
                /\ srv.final = <<"sweep", "save">>

\* The stop command cleared the flag, the join returned before the worker
\* had exited, and the final cleanup and save were performed all the same.
C14_Witness ==
    /\ srv.by = "command"
    /\ srv.main = "stopped"
    /\ ~srv.joined
    /\ srv.final = <<"sweep", "save">>
    /\ file.kind = "snapshot"

\* load_from_file has restored, at the time of the save, the file that
\* save_to_file writes of the store the load was called on.
SavedAndLoadedAtOnce(l) ==
    /\ l.pc = "load_end" /\ l.raised = "none"
    /\ l.data.kind = "snapshot" /\ l.data.malformed = {}
    /\ l.data.timestamp = now
    /\ l.data.domain_to_ip = _prepare_for_serialization(l.before[1])
    /\ l.data.ip_to_domain = _prepare_for_serialization(l.before[2])
    /\ l.data.ns_records = _prepare_for_serialization(l.before[3])

\* The keys and the times lookups are compared on.
ProbeKeys == Domains \cup Addresses \cup Nameservers
ProbeTimes == now .. (MaxTime + MaxTtl)

\* Every lookup gives the same result on both tables, and every entry of
\* restored is an entry of original with the same expiry and ttl.
SameToLookups(original, restored) ==
    /\ \A k \in ProbeKeys \cup DOMAIN original \cup DOMAIN restored : \A t \in ProbeTimes :
          _get_valid_entries(restored, k, t) = _get_valid_entries(original, k, t)
    /\ \A k \in DOMAIN restored : \A i \in DOMAIN restored[k] :
          /\ k \in DOMAIN original
          /\ \E j \in DOMAIN original[k] : original[k][j] = restored[k][i]

\* C15: a store saved with save_to_file and loaded at once with
\* load_from_file (no time elapsed) answers every lookup as the original
\* store does, and each surviving entry keeps its ttl.
C15_SnapshotRoundTrip ==
    \A w \in Writers :
        SavedAndLoadedAtOnce(wr[w]) =>
            /\ SameToLookups(wr[w].before[1], domain_to_ip)
            /\ SameToLookups(wr[w].before[2], ip_to_domain)
            /\ SameToLookups(wr[w].before[3], ns_records)

\* A store with an expired address entry and a live nameserver entry has been
\* saved and loaded at once: the first is dropped, the second survives.
C15_Witness ==
    \E w \in Writers :
        /\ SavedAndLoadedAtOnce(wr[w])
        /\ \E k \in DOMAIN wr[w].before[1] : \E i \in DOMAIN wr[w].before[1][k] :
              wr[w].before[1][k][i].expire <= now
        /\ domain_to_ip # wr[w].before[1]
        /\ \E k \in DOMAIN ns_records : \E i \in DOMAIN ns_records[k] :
              ns_records[k][i].expire > now /\ ns_records[k][i].ttl > 0

\* ------------------------------------------------------------- name codec

RECURSIVE PointerAfter(_, _)
\* Where the compression pointer closing the labels at offset points, or -1
\* when the labels end otherwise (terminator, end of data, bad label).
PointerAfter(data, offset) ==
    IF offset >= Len(data) THEN -1
    ELSE IF data[offset + 1] = 0 THEN -1
    ELSE IF data[offset + 1] >= 192
    THEN IF offset + 2 > Len(data) THEN -1
         ELSE (data[offset + 1] - 192) * 256 + data[offset + 2]
    ELSE IF ~IsAscii(Slice(data, offset + 1, offset + 1 + data[offset + 1])) THEN -1
    ELSE PointerAfter(data, offset + 1 + data[offset + 1])

RECURSIVE PointerCycle(_, _, _)
\* The pointers followed from offset come back to an offset already decoded.
PointerCycle(data, offset, seen) ==
    IF offset \in seen THEN TRUE
    ELSE IF PointerAfter(data, offset) = -1 THEN FALSE
    ELSE PointerCycle(data, PointerAfter(data, offset), seen \cup {offset})

\* C16: decoding a name ends for every message and offset; where the
\* compression pointers form a cycle (a pointer to itself included) it ends
\* with an error, and a query with such a name is dropped as unparsable.
C16_DecodingEnds ==
    \A h \in Handlers :
        /\ hs[h].pc # "idle" =>
              \A offset \in 0..Len(hs[h].data) :
                  /\ _parse_name(hs[h].data, offset).ok \in BOOLEAN
                  /\ PointerCycle(hs[h].data, offset, {}) =>
                        ~_parse_name(hs[h].data, offset).ok
        /\ hs[h].pc \notin {"idle", "start"} /\ PointerCycle(hs[h].data, 12, {}) =>
              hs[h].pc = "dropped" /\ "parse" \in hs[h].errors

\* A query whose name is a label followed by two pointers at each other has
\* been dropped.
C16_Witness ==
    \E h \in Handlers :
        /\ hs[h].pc = "dropped" /\ "parse" \in hs[h].errors
        /\ Len(hs[h].data) = 16
        /\ hs[h].data[13] = 192 /\ hs[h].data[14] = 14
        /\ hs[h].data[15] = 192 /\ hs[h].data[16] = 12
        /\ PointerCycle(hs[h].data, 12, {})

\* ------------------------------------------------------ datagrams dropped

\* Shorter than a header, or a header with the query-response bit set.
NotAQuery(data) == Len(data) < 12 \/ data[3] >= 128

\* C17: a datagram shorter than 12 bytes, or one with the query-response bit
\* set, is dropped: its handling sends nothing to the sender and nothing
\* upstream, inserts nothing into the record store, and returns normally.
C17_NotAQueryDropped ==
    \A h \in Handlers :
        hs[h].pc \notin {"idle", "start"} /\ NotAQuery(hs[h].data) =>
            /\ hs[h].pc = "dropped"
            /\ hs[h].events = <<>>
            /\ hs[h].errors \subseteq {"truncated"}

\* A response that arrived on the listening port has been dropped while the
\* record store holds an entry.
C17_Witness ==
    \E h \in Handlers :
        /\ hs[h].pc = "dropped" /\ hs[h].events = <<>>
        /\ Len(hs[h].data) >= 12 /\ hs[h].data[3] >= 128
        /\ domain_to_ip # EmptyTable

\* A dotted name within the limits: ASCII labels of at most 63 bytes, at
\* most 255 bytes when encoded.
ValidName(name) ==
    /\ IsAscii(name)
    /\ \A i \in DOMAIN SplitDots(name) : Len(SplitDots(name)[i]) <= 63
    /\ _encode_name(name).ok /\ Len(_encode_name(name).bytes) <= 255

\* C18: for every valid dotted name, here the name a handler has decoded
\* from its query, decoding the encoding of the name from offset 0 gives back
\* the name and, as next offset, the length of the encoding.
C18_NameRoundTrip ==
    \A h \in Handlers :
        hs[h].pc \in {"classify", "forward"} /\ ValidName(hs[h].query) =>
            _parse_name(_encode_name(hs[h].query).bytes, 0) =
                [ok |-> TRUE, name |-> hs[h].query,
                 offset |-> Len(_encode_name(hs[h].query).bytes)]

\* ------------------------------------------------------ snapshot atomicity

\* Every entry of table a of the document has its mirror image in table b.
MirroredIn(a, b) ==
    \A k \in DOMAIN a : \A i \in DOMAIN a[k] :
        /\ a[k][i].value \in DOMAIN b
        /\ \E j \in DOMAIN b[a[k][i].value] :
              b[a[k][i].value][j] = [value |-> k, pair |-> a[k][i].pair]

\* The document is the three tables as they stood at one instant, and its
\* forward and reverse tables mirror each other.
OneInstant(doc, tables) ==
    /\ doc.domain_to_ip = _prepare_for_serialization(tables[1])
    /\ doc.ip_to_domain = _prepare_for_serialization(tables[2])
    /\ doc.ns_records = _prepare_for_serialization(tables[3])
    /\ MirroredIn(doc.domain_to_ip, doc.ip_to_domain)
    /\ MirroredIn(doc.ip_to_domain, doc.domain_to_ip)

\* C19: whatever add_record and cleanup calls run beside save_to_file, the
\* snapshot it writes is the content of the three tables at one instant (the
\* one at which it took the lock), and holds no forward entry without the
\* reverse entry of the same add_record call, nor the converse.
C19_SnapshotAtomic ==
    /\ \A w \in Writers :
          wr[w].pc = "snap_write" => OneInstant(wr[w].data, wr[w].before)
    /\ file.kind = "snapshot" =>
          /\ MirroredIn(file.domain_to_ip, file.ip_to_domain)
          /\ MirroredIn(file.ip_to_domain, file.domain_to_ip)

\* A snapshot with an address entry is about to be written while the other
\* thread, in add_record, waits for the lock with its expiry already computed.
C19_Witness ==
    /\ wr["w2"].pc = "snap_write" /\ lock = "w2"
    /\ wr["w2"].data.domain_to_ip # EmptyTable
    /\ wr["w2"].data.ns_records # EmptyTable
    /\ wr["w1"].pc = "add_fwd"

\* ------------------------------------------------- eager and lazy expiry

\* From time t on, a lookup of any key answers the same on swept as on
\* unswept, and every entry missing from swept had expired by t.
InvisibleFrom(unswept, swept, t) ==
    /\ \A k \in ProbeKeys \cup DOMAIN unswept : \A at \in t .. (MaxTime + MaxTtl) :
          _get_valid_entries(swept, k, at) = _get_valid_entries(unswept, k, at)
    /\ \A k \in DOMAIN unswept : \A i \in DOMAIN unswept[k] :
          Valid(unswept[k][i], t) =>
              /\ k \in DOMAIN swept
              /\ \E j \in DOMAIN swept[k] : swept[k][j] = unswept[k][i]

\* C20: each step of cleanup() that replaces a table removes only entries
\* that a lookup at the sweep's sampled time already omits, so at every time
\* from the sampled time on every lookup answers the same on the table after
\* the step as on the table before it.
C20_SweepInvisible ==
    [][\A w \in Writers :
          /\ wr[w].pc = "cl_fwd" /\ wr'[w].pc = "cl_rev" =>
                InvisibleFrom(domain_to_ip, domain_to_ip', wr[w].t)
          /\ wr[w].pc = "cl_rev" /\ wr'[w].pc = "cl_ns" =>
                InvisibleFrom(ip_to_domain, ip_to_domain', wr[w].t)
          /\ wr[w].pc = "cl_ns" /\ wr'[w].pc = "idle" =>
                InvisibleFrom(ns_records, ns_records', wr[w].t)]_vars

\* A sweep has just filtered the forward table: it removed an expired entry
\* whose reverse image is still stored, and kept an entry that is still live.
C20_Witness ==
    \E w \in Writers :
        /\ wr[w].pc = "cl_rev"
        /\ \E ip \in DOMAIN ip_to_domain : \E i \in DOMAIN ip_to_domain[ip] :
              /\ ~Valid(ip_to_domain[ip][i], wr[w].t)
              /\ ~Stored(domain_to_ip, ip_to_domain[ip][i].value, ip)
        /\ \E d \in DOMAIN domain_to_ip : \E i \in DOMAIN domain_to_ip[d] :
              Valid(domain_to_ip[d][i], now)
        /\ ns_records # EmptyTable

====
